---- MODULE Spec2Model ----
(***************************************************************************)
(* Model of scripts/init.py, the Matrix-Hub catalog initializer: the index *)
(* document (matrix/index.json) in its three shapes, the manifest files    *)
(* written next to it, the dedup helpers and the commands of the CLI.      *)
(*                                                                         *)
(* A JSON object (a Python dict) is a function from its keys to its        *)
(* values; a JSON array is a sequence.  A file on disk is a record         *)
(* [exists |-> FALSE] or [exists |-> TRUE, text |-> t].                    *)
(***************************************************************************)
EXTENDS Integers, Sequences, FiniteSets, TLC

VARIABLES
    index,   \* the file at a.out (matrix/index.json)
    files,   \* the other files of the index directory, by file name
    idx,     \* the dict a caller of the library functions holds (SpecLib)
    clock,   \* what now_iso() returns; it advances with every operation
    last,    \* the last operation: its name, arguments and outcome
    procs    \* two invocations that run at the same time (SpecRace)

vars == <<index, files, idx, clock, last, procs>>

----------------------------------------------------------------------------
(* Bounds and input sets *)

MaxClock == 4   \* calls of the library functions in a run of SpecLib
MaxCmds == 3    \* commands in a run of Spec

None == "<None>"
VALID_SHAPES == {"manifests", "items", "entries"}
Shapes == VALID_SHAPES \cup {None, "bogus"}
Urls == {"https://h/a.yaml", "https://h/b.yaml"}
BaseUrls == {"http://x/", "http://y/"}
Paths == {"a.json", "b.json"}
ServerId == "hello-sse-server"
ToolId == "hello-tool"
AgentId == "hello-agent"
Transports == {"sse", " Sse "}
Summaries == {None, "Minimal SSE server"}
SchemaTexts == {None, "", "{bad", "{\"type\":\"object\"}", "null"}
OutputTexts == {None, "{bad"}
ToolIdArgs == {<<"hello-tool">>, <<" hello-tool ", "", "hello-tool", " ">>}
Sources == {"/m/x.yaml", "/n/x.yaml", "/m/gone.yaml"}
Filenames == {None, "hello-tool.manifest.json"}

----------------------------------------------------------------------------
(* Dicts *)

EmptyDict == [k \in {} |-> 0]

Put(d, k, v) == [x \in (DOMAIN d) \cup {k} |-> IF x = k THEN v ELSE d[x]]

SeqToSet(s) == {s[i] : i \in 1..Len(s)}

----------------------------------------------------------------------------
(* IO helpers *)

now_iso == clock

NoFile == [exists |-> FALSE]

\* The order in which the members of an object are written out.
KeyOrder ==
    <<"manifests", "items", "entries", "meta",
      "type", "id", "version", "name", "summary", "description", "license",
      "homepage", "publisher", "mcp_registration", "input_schema",
      "output_schema", "server", "tools">>

\* json.dump that leaves out the member "manifests".
JsonDump_NoManifests(obj) ==
    LET ks == SelectSeq(KeyOrder, LAMBDA k : k \in DOMAIN obj /\ k # "manifests")
    IN  [members |-> [i \in 1..Len(ks) |-> <<ks[i], obj[ks[i]]>>]]

\* json.dump: the object as the sequence of its members, <<key, value>>.
JsonDump(obj) ==
    LET ks == SelectSeq(KeyOrder, LAMBDA k : k \in DOMAIN obj)
    IN  [members |-> [i \in 1..Len(ks) |-> <<ks[i], obj[ks[i]]>>]]

\* Text that json.load rejects.
CorruptText == [garbage |-> "{bad"]

JsonValid(text) == "members" \in DOMAIN text

\* json.load of a valid text: the dict of its members.
JsonLoad(text) ==
    LET ms == text.members
    IN  [k \in {ms[i][1] : i \in 1..Len(ms)} |->
            (CHOOSE m \in SeqToSet(ms) : m[1] = k)[2]]

\* load_json(path): [ok, value]; ok is FALSE when json.load raises.
load_json(file) ==
    IF JsonValid(file.text)
    THEN [ok |-> TRUE, value |-> JsonLoad(file.text)]
    ELSE [ok |-> FALSE, value |-> EmptyDict]

\* write_json(path, obj): the file that is on disk afterwards.
write_json(obj) == [exists |-> TRUE, text |-> JsonDump(obj)]

----------------------------------------------------------------------------
(* Index scaffolding *)

NewMeta(t) ==
    [format |-> "matrix-hub-index", version |-> 1,
     generated_by |-> "scripts/init.py", created_at |-> t]

\* ensure_index with the default shape "entries" instead of "items".
ensure_index_DefaultEntries(file, shape, t) ==
    IF file.exists
    THEN LET r == load_json(file)
         IN  IF r.ok
             THEN [status |-> "ok", idx |-> r.value, file |-> file]
             ELSE [status |-> "corrupt_index", idx |-> EmptyDict, file |-> file]
    ELSE LET s == IF shape = None THEN "entries" ELSE shape
         IN  IF s \notin VALID_SHAPES
             THEN [status |-> "invalid_shape", idx |-> EmptyDict, file |-> file]
             ELSE LET d == Put(Put(EmptyDict, s, <<>>), "meta", NewMeta(t))
                  IN  [status |-> "ok", idx |-> d, file |-> write_json(d)]

\* ensure_index(path, shape): [status, idx, file], file being the index file
\* afterwards.  status is "ok", or the reason of the sys.exit.
ensure_index(file, shape, t) ==
    IF file.exists
    THEN LET r == load_json(file)
         IN  IF r.ok
             THEN [status |-> "ok", idx |-> r.value, file |-> file]
             ELSE [status |-> "corrupt_index", idx |-> EmptyDict, file |-> file]
    ELSE LET s == IF shape = None THEN "items" ELSE shape
         IN  IF s \notin VALID_SHAPES
             THEN [status |-> "invalid_shape", idx |-> EmptyDict, file |-> file]
             ELSE LET key == IF s = "manifests" THEN "manifests"
                             ELSE IF s = "items" THEN "items"
                             ELSE "entries"
                      d == Put(Put(EmptyDict, key, <<>>), "meta", NewMeta(t))
                  IN  [status |-> "ok", idx |-> d, file |-> write_json(d)]

\* persist_index that writes the file before it sets updated_at.
persist_index_WriteFirst(d, t) ==
    LET meta == IF "meta" \in DOMAIN d THEN d["meta"] ELSE EmptyDict
        d2 == Put(d, "meta", Put(meta, "updated_at", t))
    IN  [idx |-> d2, file |-> write_json(d)]

\* persist_index(path, idx): [idx, file], idx being the dict after setdefault
\* and the assignment of updated_at.
persist_index(d, t) ==
    LET meta == IF "meta" \in DOMAIN d THEN d["meta"] ELSE EmptyDict
        d2 == Put(d, "meta", Put(meta, "updated_at", t))
    IN  [idx |-> d2, file |-> write_json(d2)]

----------------------------------------------------------------------------
(* Dedup helpers *)

\* add_manifest_url whose Form-A branch appends without looking for the URL.
add_manifest_url_NoDedupManifests(d, url) ==
    IF "items" \in DOMAIN d
    THEN IF ~ \E i \in 1..Len(d["items"]) : d["items"][i].manifest_url = url
         THEN [idx |-> Put(d, "items", Append(d["items"], [manifest_url |-> url])),
               changed |-> TRUE]
         ELSE [idx |-> d, changed |-> FALSE]
    ELSE IF "manifests" \in DOMAIN d
    THEN [idx |-> Put(d, "manifests", Append(d["manifests"], url)), changed |-> TRUE]
    ELSE [idx |-> Put(d, "items", <<[manifest_url |-> url]>>), changed |-> TRUE]

\* add_manifest_url that puts a new Form-B record at the front of the list.
add_manifest_url_Prepend(d, url) ==
    IF "items" \in DOMAIN d
    THEN IF ~ \E i \in 1..Len(d["items"]) : d["items"][i].manifest_url = url
         THEN [idx |-> Put(d, "items", <<[manifest_url |-> url]>> \o d["items"]),
               changed |-> TRUE]
         ELSE [idx |-> d, changed |-> FALSE]
    ELSE IF "manifests" \in DOMAIN d
    THEN IF url \notin SeqToSet(d["manifests"])
         THEN [idx |-> Put(d, "manifests", Append(d["manifests"], url)),
               changed |-> TRUE]
         ELSE [idx |-> d, changed |-> FALSE]
    ELSE [idx |-> Put(d, "items", <<[manifest_url |-> url]>>), changed |-> TRUE]

\* add_manifest_url that looks for "manifests" before it looks for "items".
add_manifest_url_ManifestsFirst(d, url) ==
    IF "manifests" \in DOMAIN d
    THEN IF url \notin SeqToSet(d["manifests"])
         THEN [idx |-> Put(d, "manifests", Append(d["manifests"], url)),
               changed |-> TRUE]
         ELSE [idx |-> d, changed |-> FALSE]
    ELSE IF "items" \in DOMAIN d
    THEN IF ~ \E i \in 1..Len(d["items"]) : d["items"][i].manifest_url = url
         THEN [idx |-> Put(d, "items", Append(d["items"], [manifest_url |-> url])),
               changed |-> TRUE]
         ELSE [idx |-> d, changed |-> FALSE]
    ELSE [idx |-> Put(d, "items", <<[manifest_url |-> url]>>), changed |-> TRUE]

\* add_manifest_url(idx, url): [idx, changed].
add_manifest_url(d, url) ==
    IF "items" \in DOMAIN d
    THEN IF ~ \E i \in 1..Len(d["items"]) : d["items"][i].manifest_url = url
         THEN [idx |-> Put(d, "items", Append(d["items"], [manifest_url |-> url])),
               changed |-> TRUE]
         ELSE [idx |-> d, changed |-> FALSE]
    ELSE IF "manifests" \in DOMAIN d
    THEN IF url \notin SeqToSet(d["manifests"])
         THEN [idx |-> Put(d, "manifests", Append(d["manifests"], url)),
               changed |-> TRUE]
         ELSE [idx |-> d, changed |-> FALSE]
    ELSE [idx |-> Put(d, "items", <<[manifest_url |-> url]>>), changed |-> TRUE]

\* add_entry that never finds a duplicate.
add_entry_NoDedup(d, path, base_url) ==
    LET d1 == IF "entries" \in DOMAIN d THEN d ELSE Put(d, "entries", <<>>)
    IN  [idx |-> Put(d1, "entries",
                     Append(d1["entries"], [path |-> path, base_url |-> base_url])),
         changed |-> TRUE]

\* add_entry that takes an entry with the same path for a duplicate.
add_entry_ByPath(d, path, base_url) ==
    LET d1 == IF "entries" \in DOMAIN d THEN d ELSE Put(d, "entries", <<>>)
        entries == d1["entries"]
        dupe == \E i \in 1..Len(entries) : entries[i].path = path
    IN  IF dupe
        THEN [idx |-> d1, changed |-> FALSE]
        ELSE [idx |-> Put(d1, "entries",
                          Append(entries, [path |-> path, base_url |-> base_url])),
              changed |-> TRUE]

\* add_entry(idx, path, base_url): [idx, changed].  The setdefault leaves the
\* key "entries" in the dict also when nothing is appended.
add_entry(d, path, base_url) ==
    LET d1 == IF "entries" \in DOMAIN d THEN d ELSE Put(d, "entries", <<>>)
        entries == d1["entries"]
        dupe == \E i \in 1..Len(entries) :
                    entries[i].path = path /\ entries[i].base_url = base_url
    IN  IF dupe
        THEN [idx |-> d1, changed |-> FALSE]
        ELSE [idx |-> Put(d1, "entries",
                          Append(entries, [path |-> path, base_url |-> base_url])),
              changed |-> TRUE]

----------------------------------------------------------------------------
(* Manifest scaffolds *)

\* f"{id}.manifest.json"
ManifestFilename(id) ==
    CASE id = "hello-sse-server" -> "hello-sse-server.manifest.json"
      [] id = "hello-tool" -> "hello-tool.manifest.json"
      [] id = "hello-agent" -> "hello-agent.manifest.json"

\* f"{name} server"
ServerSuffix(name) == CASE name = "Hello" -> "Hello server"

\* transport.strip().upper()
StripUpper(transport) ==
    CASE transport = "sse" -> "SSE"
      [] transport = " Sse " -> "SSE"

\* s.strip()
Strip(s) ==
    CASE s = "hello-tool" -> "hello-tool"
      [] s = " hello-tool " -> "hello-tool"
      [] s = "" -> ""
      [] s = " " -> ""

\* The result of a parse that yields None (no value).
NoValue == [ok |-> TRUE, none |-> TRUE, value |-> EmptyDict]

\* json.loads: [ok, none, value]; ok is FALSE when it raises, none is TRUE when
\* the value is None ("null" loads as None).
JsonLoads(text) ==
    CASE text = "{\"type\":\"object\"}" ->
            [ok |-> TRUE, none |-> FALSE, value |-> [type |-> "object"]]
      [] text = "null" -> NoValue
      [] OTHER -> [ok |-> FALSE, none |-> TRUE, value |-> EmptyDict]

\* asdict(BaseManifest(...)): the optional fields are present, None when not given.
BaseManifest(type, id, version, name, summary) ==
    [type |-> type, id |-> id, version |-> version, name |-> name,
     summary |-> summary, description |-> None, license |-> None,
     homepage |-> None, publisher |-> None]

\* write_manifest that leaves a file of that name alone when there is one.
write_manifest_KeepExisting(dir, filename, data) ==
    IF filename \in DOMAIN dir THEN dir ELSE Put(dir, filename, write_json(data).text)

\* write_manifest(dest_dir, filename, data): the directory afterwards.
write_manifest(dir, filename, data) == Put(dir, filename, write_json(data).text)

\* scaffold_mcp_server: [ok, name, files].
scaffold_mcp_server(dir, id, name, version, transport, url, summary) ==
    LET base == BaseManifest("mcp_server", id, version, name, summary)
        transport_up == StripUpper(transport)
        descr == IF summary # None THEN summary
                 ELSE IF base.description # None THEN base.description
                 ELSE ServerSuffix(name)
        manifest == Put(base, "mcp_registration",
                        [server |-> [name |-> id, description |-> descr,
                                     transport |-> transport_up, url |-> url]])
        filename == ManifestFilename(id)
    IN  [ok |-> TRUE, name |-> filename,
         files |-> write_manifest(dir, filename, manifest)]

\* scaffold_tool._parse: a text that is None or empty is no schema.
ParseSchema(json_text) ==
    IF json_text = None \/ json_text = ""
    THEN NoValue
    ELSE JsonLoads(json_text)

\* scaffold_tool: [ok, name, files]; ok is FALSE after the sys.exit of _parse.
scaffold_tool(dir, id, name, version, summary, input_schema_json, output_schema_json) ==
    LET base == BaseManifest("tool", id, version, name, summary)
        input_schema == ParseSchema(input_schema_json)
        output_schema == ParseSchema(output_schema_json)
        m1 == IF ~ input_schema.none
              THEN Put(base, "input_schema", input_schema.value) ELSE base
        m2 == IF ~ output_schema.none
              THEN Put(m1, "output_schema", output_schema.value) ELSE m1
        filename == ManifestFilename(id)
    IN  IF ~ input_schema.ok \/ ~ output_schema.ok
        THEN [ok |-> FALSE, name |-> filename, files |-> dir]
        ELSE [ok |-> TRUE, name |-> filename,
              files |-> write_manifest(dir, filename, m2)]

\* scaffold_agent: [ok, name, files].
scaffold_agent(dir, id, name, version, server_id, tool_ids, summary) ==
    LET base == BaseManifest("agent", id, version, name, summary)
        m1 == Put(base, "server", [id |-> server_id])
        m2 == Put(m1, "tools", [i \in 1..Len(tool_ids) |-> [id |-> tool_ids[i]]])
        filename == ManifestFilename(id)
    IN  [ok |-> TRUE, name |-> filename,
         files |-> write_manifest(dir, filename, m2)]

\* [s.strip() for s in a.tool_ids.split(",") if s.strip()], the argument given
\* as the sequence of its comma-separated tokens.
SplitToolIds(tokens) ==
    LET kept == SelectSeq(tokens, LAMBDA s : Strip(s) # "")
    IN  [i \in 1..Len(kept) |-> Strip(kept[i])]

----------------------------------------------------------------------------
(* Files outside the index directory that add-inline can be pointed at *)

SrcExists(src) == src \in {"/m/x.yaml", "/n/x.yaml"}

\* src.name
SrcName(src) ==
    CASE src = "/m/x.yaml" -> "x.yaml"
      [] src = "/n/x.yaml" -> "x.yaml"
      [] src = "/m/gone.yaml" -> "gone.yaml"

\* src.read_text()
SrcText(src) ==
    CASE src = "/m/x.yaml" -> [yaml |-> "id: one"]
      [] src = "/n/x.yaml" -> [yaml |-> "id: two"]

----------------------------------------------------------------------------
(* The record of the last operation: its arguments, its status ("ok" or the *)
(* reason of the sys.exit) and the value `changed` it returned or reported.*)
(* For a call of a dedup helper also: grew, by how much the list it targets*)
(* grew; had, whether the element was in that list before the call; repeat,*)
(* whether the call before it was the same call with the same arguments.   *)

NoArgs ==
    [shape |-> None, url |-> None, path |-> None, base_url |-> None,
     src |-> None, force |-> FALSE, input_json |-> None, output_json |-> None,
     grew |-> 0, had |-> FALSE, repeat |-> FALSE]

Outcome(op, status, changed, args) ==
    [op |-> op, status |-> status, changed |-> changed] @@ args

ListKeys == {"manifests", "items", "entries"}

\* The list under key k, empty when the key is absent.
ListOf(d, k) == IF k \in DOMAIN d THEN d[k] ELSE <<>>

\* The key of the list that add_manifest_url looks at.
UrlKey(d) == IF "items" \in DOMAIN d THEN "items"
             ELSE IF "manifests" \in DOMAIN d THEN "manifests"
             ELSE "items"

\* The URLs of the list that add_manifest_url looks at.
UrlsOf(d) ==
    IF UrlKey(d) = "items"
    THEN {ListOf(d, "items")[i].manifest_url : i \in 1..Len(ListOf(d, "items"))}
    ELSE SeqToSet(d["manifests"])

----------------------------------------------------------------------------
(* An invocation of add-url or add-entry, step by step *)

Procs == {1, 2}

\* pc: where the invocation is; idx: the dict it holds; stamp: the time
\* persist_index read; loaded_at, wrote_at: when it looked at the index file
\* and when it last wrote it (-1: not yet).
IdleProc ==
    [pc |-> "idle", op |-> "none", url |-> None, path |-> None, base_url |-> None,
     idx |-> EmptyDict, changed |-> FALSE, status |-> "ok", stamp |-> 0,
     loaded_at |-> -1, wrote_at |-> -1]

\* open(path, "w") leaves the file empty until the text is written.
TruncatedText == [garbage |-> ""]

\* What the file holds after a writer's text goes to its start: the text, or,
\* when another writer's text is in the file by then and is the longer one,
\* a mix of the two.
WriteOutcomes(current, text) ==
    IF current = TruncatedText THEN {text} ELSE {text, CorruptText}

----------------------------------------------------------------------------
(* The library functions, called one at a time by a client that holds one  *)
(* dict (SpecLib).                                                         *)

Init ==
    /\ index = NoFile
    /\ files = EmptyDict
    /\ idx = EmptyDict
    /\ clock = 0
    /\ last = Outcome("none", "ok", FALSE, NoArgs)
    /\ procs = [p \in Procs |-> IdleProc]

CallEnsureIndex(shape) ==
    /\ clock < MaxClock
    /\ LET r == ensure_index(index, shape, now_iso)
       IN  /\ index' = r.file
           /\ idx' = IF r.status = "ok" THEN r.idx ELSE idx
           /\ last' = Outcome("ensure_index", r.status, FALSE,
                              [NoArgs EXCEPT !.shape = shape])
    /\ clock' = clock + 1
    /\ UNCHANGED <<files, procs>>

CallPersistIndex ==
    /\ clock < MaxClock
    /\ LET r == persist_index(idx, now_iso)
       IN  /\ index' = r.file
           /\ idx' = r.idx
    /\ last' = Outcome("persist_index", "ok", FALSE, NoArgs)
    /\ clock' = clock + 1
    /\ UNCHANGED <<files, procs>>

CallAddManifestUrl(url) ==
    /\ clock < MaxClock
    /\ LET r == add_manifest_url(idx, url)
       IN  /\ idx' = r.idx
           /\ last' = Outcome("add_manifest_url", "ok", r.changed,
                  [NoArgs EXCEPT
                     !.url = url,
                     !.grew = Len(ListOf(r.idx, UrlKey(idx))) - Len(ListOf(idx, UrlKey(idx))),
                     !.had = url \in UrlsOf(idx),
                     !.repeat = (last.op = "add_manifest_url" /\ last.url = url)])
    /\ clock' = clock + 1
    /\ UNCHANGED <<index, files, procs>>

CallAddEntry(path, base_url) ==
    /\ clock < MaxClock
    /\ LET r == add_entry(idx, path, base_url)
       IN  /\ idx' = r.idx
           /\ last' = Outcome("add_entry", "ok", r.changed,
                  [NoArgs EXCEPT
                     !.path = path, !.base_url = base_url,
                     !.grew = Len(ListOf(r.idx, "entries")) - Len(ListOf(idx, "entries")),
                     !.had = [path |-> path, base_url |-> base_url]
                                \in SeqToSet(ListOf(idx, "entries")),
                     !.repeat = (last.op = "add_entry" /\ last.path = path
                                 /\ last.base_url = base_url)])
    /\ clock' = clock + 1
    /\ UNCHANGED <<index, files, procs>>

NextLib ==
    \/ \E shape \in Shapes : CallEnsureIndex(shape)
    \/ CallPersistIndex
    \/ \E url \in Urls : CallAddManifestUrl(url)
    \/ \E path \in Paths, base_url \in BaseUrls : CallAddEntry(path, base_url)

SpecLib == Init /\ [][NextLib]_vars

\* Dicts that a caller can hand to the helpers: an index written by hand that
\* has both a Form-A and a Form-B list, or no list at all.
CallerDicts ==
    {EmptyDict,
     [manifests |-> <<"https://h/a.yaml">>, items |-> <<>>],
     [manifests |-> <<>>, items |-> <<[manifest_url |-> "https://h/b.yaml"]>>],
     [meta |-> NewMeta(0)]}

InitCaller ==
    /\ index = NoFile
    /\ files = EmptyDict
    /\ idx \in CallerDicts
    /\ clock = 0
    /\ last = Outcome("none", "ok", FALSE, NoArgs)
    /\ procs = [p \in Procs |-> IdleProc]

SpecCaller == InitCaller /\ [][NextLib]_vars

----------------------------------------------------------------------------
(* The commands of the CLI, each run to completion (Spec).                 *)

\* What a command leaves behind when it ends in sys.exit after ensure_index.
Exit(op, status, args, file, dir) ==
    /\ index' = file
    /\ files' = dir
    /\ last' = Outcome(op, status, FALSE, args)

\* The tail shared by the commands that register a Form-C entry:
\* add_entry, persist_index, and the message that reports `changed`.
AddEntryAndPersist(op, args, d, dir, path, base_url) ==
    LET r == add_entry(d, path, base_url)
        p == persist_index(r.idx, now_iso)
    IN  /\ index' = p.file
        /\ files' = dir
        /\ last' = Outcome(op, "ok", r.changed, args)

cmd_init_empty(shape) ==
    /\ clock < MaxCmds
    /\ LET args == [NoArgs EXCEPT !.shape = shape]
           e == ensure_index(index, shape, now_iso)
       IN  IF e.status # "ok"
           THEN Exit("init-empty", e.status, args, e.file, files)
           ELSE /\ index' = persist_index(e.idx, now_iso).file
                /\ files' = files
                /\ last' = Outcome("init-empty", "ok", FALSE, args)
    /\ clock' = clock + 1
    /\ UNCHANGED <<idx, procs>>

cmd_add_url(manifest_url) ==
    /\ clock < MaxCmds
    /\ LET args == [NoArgs EXCEPT !.url = manifest_url]
           e == ensure_index(index, None, now_iso)
       IN  IF e.status # "ok"
           THEN Exit("add-url", e.status, args, e.file, files)
           ELSE LET r == add_manifest_url(e.idx, manifest_url)
                IN  /\ index' = persist_index(r.idx, now_iso).file
                    /\ files' = files
                    /\ last' = Outcome("add-url", "ok", r.changed, args)
    /\ clock' = clock + 1
    /\ UNCHANGED <<idx, procs>>

cmd_add_entry(path, base_url) ==
    /\ clock < MaxCmds
    /\ LET args == [NoArgs EXCEPT !.path = path, !.base_url = base_url]
           e == ensure_index(index, "entries", now_iso)
       IN  IF e.status # "ok"
           THEN Exit("add-entry", e.status, args, e.file, files)
           ELSE AddEntryAndPersist("add-entry", args, e.idx, files, path, base_url)
    /\ clock' = clock + 1
    /\ UNCHANGED <<idx, procs>>

\* cmd_add_inline that stops at a destination that differs also with --force.
cmd_add_inline_ForceIgnored(manifest, filename, base_url, force) ==
    /\ clock < MaxCmds
    /\ LET dest_name == IF filename # None THEN filename ELSE SrcName(manifest)
           args == [NoArgs EXCEPT !.src = manifest, !.path = dest_name,
                                  !.base_url = base_url, !.force = force]
           e == ensure_index(index, "entries", now_iso)
       IN  IF e.status # "ok"
           THEN Exit("add-inline", e.status, args, e.file, files)
           ELSE IF ~ SrcExists(manifest)
           THEN Exit("add-inline", "source_not_found", args, e.file, files)
           ELSE IF dest_name \in DOMAIN files
           THEN IF files[dest_name] # SrcText(manifest)
                THEN Exit("add-inline", "destination_conflict", args, e.file, files)
                ELSE AddEntryAndPersist("add-inline", args, e.idx, files,
                                        dest_name, base_url)
           ELSE AddEntryAndPersist("add-inline", args, e.idx,
                                   Put(files, dest_name, SrcText(manifest)),
                                   dest_name, base_url)
    /\ clock' = clock + 1
    /\ UNCHANGED <<idx, procs>>

cmd_add_inline(manifest, filename, base_url, force) ==
    /\ clock < MaxCmds
    /\ LET dest_name == IF filename # None THEN filename ELSE SrcName(manifest)
           args == [NoArgs EXCEPT !.src = manifest, !.path = dest_name,
                                  !.base_url = base_url, !.force = force]
           e == ensure_index(index, "entries", now_iso)
       IN  IF e.status # "ok"
           THEN Exit("add-inline", e.status, args, e.file, files)
           ELSE IF ~ SrcExists(manifest)
           THEN Exit("add-inline", "source_not_found", args, e.file, files)
           ELSE IF dest_name \in DOMAIN files /\ ~ force
           THEN IF files[dest_name] # SrcText(manifest)
                THEN Exit("add-inline", "destination_conflict", args, e.file, files)
                ELSE AddEntryAndPersist("add-inline", args, e.idx, files,
                                        dest_name, base_url)
           ELSE AddEntryAndPersist("add-inline", args, e.idx,
                                   Put(files, dest_name, SrcText(manifest)),
                                   dest_name, base_url)
    /\ clock' = clock + 1
    /\ UNCHANGED <<idx, procs>>

cmd_scaffold_server(base_url, id, transport, summary) ==
    /\ clock < MaxCmds
    /\ LET args == [NoArgs EXCEPT !.path = ManifestFilename(id), !.base_url = base_url]
           e == ensure_index(index, "entries", now_iso)
       IN  IF e.status # "ok"
           THEN Exit("scaffold-server", e.status, args, e.file, files)
           ELSE LET w == scaffold_mcp_server(files, id, "Hello", "0.1.0", transport,
                                             "http://127.0.0.1:8000/messages/",
                                             summary)
                IN  AddEntryAndPersist("scaffold-server", args, e.idx, w.files,
                                       w.name, base_url)
    /\ clock' = clock + 1
    /\ UNCHANGED <<idx, procs>>

cmd_scaffold_tool(base_url, id, input_json, output_json) ==
    /\ clock < MaxCmds
    /\ LET args == [NoArgs EXCEPT !.path = ManifestFilename(id), !.base_url = base_url,
                                  !.input_json = input_json,
                                  !.output_json = output_json]
           e == ensure_index(index, "entries", now_iso)
       IN  IF e.status # "ok"
           THEN Exit("scaffold-tool", e.status, args, e.file, files)
           ELSE LET w == scaffold_tool(files, id, "Hello", "0.1.0", None,
                                       input_json, output_json)
                IN  IF ~ w.ok
                    THEN Exit("scaffold-tool", "invalid_schema", args, e.file, w.files)
                    ELSE AddEntryAndPersist("scaffold-tool", args, e.idx, w.files,
                                            w.name, base_url)
    /\ clock' = clock + 1
    /\ UNCHANGED <<idx, procs>>

cmd_scaffold_agent(base_url, id, tool_ids) ==
    /\ clock < MaxCmds
    /\ LET args == [NoArgs EXCEPT !.path = ManifestFilename(id), !.base_url = base_url]
           e == ensure_index(index, "entries", now_iso)
       IN  IF e.status # "ok"
           THEN Exit("scaffold-agent", e.status, args, e.file, files)
           ELSE LET w == scaffold_agent(files, id, "Hello", "0.1.0", ServerId,
                                        SplitToolIds(tool_ids), None)
                IN  AddEntryAndPersist("scaffold-agent", args, e.idx, w.files,
                                       w.name, base_url)
    /\ clock' = clock + 1
    /\ UNCHANGED <<idx, procs>>

Next ==
    \/ \E shape \in VALID_SHAPES : cmd_init_empty(shape)
    \/ \E url \in Urls : cmd_add_url(url)
    \/ \E path \in Paths, base_url \in BaseUrls : cmd_add_entry(path, base_url)
    \/ \E manifest \in Sources, filename \in Filenames, base_url \in BaseUrls,
          force \in BOOLEAN : cmd_add_inline(manifest, filename, base_url, force)
    \/ \E base_url \in BaseUrls, transport \in Transports, summary \in Summaries :
            cmd_scaffold_server(base_url, ServerId, transport, summary)
    \/ \E base_url \in BaseUrls, input_json \in SchemaTexts,
          output_json \in OutputTexts :
            cmd_scaffold_tool(base_url, ToolId, input_json, output_json)
    \/ \E base_url \in BaseUrls, tool_ids \in ToolIdArgs :
            cmd_scaffold_agent(base_url, AgentId, tool_ids)

Spec == Init /\ [][Next]_vars

\* The index directory as a run can find it: the index absent or unreadable,
\* and a manifest put there by hand or by a run against another index path.
InitAny ==
    /\ index \in {NoFile, [exists |-> TRUE, text |-> CorruptText]}
    /\ files \in {EmptyDict, Put(EmptyDict, "x.yaml", [yaml |-> "id: one"])}
    /\ idx = EmptyDict
    /\ clock = 0
    /\ last = Outcome("none", "ok", FALSE, NoArgs)
    /\ procs = [p \in Procs |-> IdleProc]

SpecAny == InitAny /\ [][Next]_vars

----------------------------------------------------------------------------
(* Two invocations of add-url or add-entry against one index path, with no *)
(* lock: the steps of cmd_add_url and cmd_add_entry interleave (SpecRace). *)

\* ensure_index up to the point where it has loaded the file or has built
\* the new index that it is about to write.
RaceEnsure(p, op, url, path, base_url) ==
    /\ procs[p].pc = "idle"
    /\ LET shape == IF op = "add-url" THEN None ELSE "entries"
           r == ensure_index(index, shape, now_iso)
       IN  procs' = [procs EXCEPT ![p] =
              [@ EXCEPT !.op = op, !.url = url, !.path = path, !.base_url = base_url,
                        !.loaded_at = clock,
                        !.status = r.status,
                        !.idx = r.idx,
                        !.pc = IF r.status # "ok" THEN "failed"
                               ELSE IF index.exists THEN "loaded"
                               ELSE "create_open"]]
    /\ clock' = clock + 1
    /\ UNCHANGED <<index, files, idx, last>>

\* add_manifest_url or add_entry on the dict in memory; persist_index then
\* reads the time.
RaceAdd(p) ==
    /\ procs[p].pc = "loaded"
    /\ LET r == IF procs[p].op = "add-url"
                THEN add_manifest_url(procs[p].idx, procs[p].url)
                ELSE add_entry(procs[p].idx, procs[p].path, procs[p].base_url)
       IN  procs' = [procs EXCEPT ![p] =
              [@ EXCEPT !.idx = r.idx, !.changed = r.changed, !.stamp = now_iso,
                        !.pc = "persist_open"]]
    /\ clock' = clock + 1
    /\ UNCHANGED <<index, files, idx, last>>

\* write_json opens the file for writing.
RaceTruncate(p) ==
    /\ procs[p].pc \in {"create_open", "persist_open"}
    /\ index' = [exists |-> TRUE, text |-> TruncatedText]
    /\ procs' = [procs EXCEPT ![p].pc =
                    IF procs[p].pc = "create_open" THEN "create_write"
                    ELSE "persist_write"]
    /\ clock' = clock + 1
    /\ UNCHANGED <<files, idx, last>>

\* write_json writes the text and closes the file: the new index of
\* ensure_index, or the dict of persist_index with its updated_at.
RaceWrite(p) ==
    /\ procs[p].pc \in {"create_write", "persist_write"}
    /\ LET creating == procs[p].pc = "create_write"
           r == IF creating
                THEN [idx |-> procs[p].idx, file |-> write_json(procs[p].idx)]
                ELSE persist_index(procs[p].idx, procs[p].stamp)
       IN  /\ \E text \in WriteOutcomes(index.text, r.file.text) :
                 index' = [exists |-> TRUE, text |-> text]
           /\ procs' = [procs EXCEPT ![p] =
                 [@ EXCEPT !.idx = r.idx, !.wrote_at = clock,
                           !.pc = IF creating THEN "loaded" ELSE "done"]]
    /\ clock' = clock + 1
    /\ UNCHANGED <<files, idx, last>>

NextRace ==
    \E p \in Procs :
        \/ \E url \in Urls : RaceEnsure(p, "add-url", url, None, None)
        \/ \E path \in Paths, base_url \in BaseUrls :
              RaceEnsure(p, "add-entry", None, path, base_url)
        \/ RaceAdd(p)
        \/ RaceTruncate(p)
        \/ RaceWrite(p)

SpecRace == Init /\ [][NextRace]_vars

----------------------------------------------------------------------------
(* Properties *)

\* The index document on disk (of a readable index file).
IndexDoc == JsonLoad(index.text)

IndexReadable == index.exists /\ JsonValid(index.text)

\* No two elements of the sequence are equal.
Distinct(seq) == \A i, j \in 1..Len(seq) : seq[i] = seq[j] => i = j

\* C1: in the persisted index, after any sequence of commands on an index
\* path that starts out absent, at most one of the list keys manifests,
\* items, entries is present.
C1_AtMostOneListKey ==
    IndexReadable => Cardinality(DOMAIN IndexDoc \cap ListKeys) <= 1

\* C2: after any sequence of commands on an index that starts out absent, no
\* URL occurs twice in manifests or in items and no (path, base_url) pair
\* occurs twice in entries.
C2_NoDuplicates ==
    IndexReadable =>
        /\ Distinct(ListOf(IndexDoc, "manifests"))
        /\ Distinct([i \in 1..Len(ListOf(IndexDoc, "items")) |->
                        ListOf(IndexDoc, "items")[i].manifest_url])
        /\ Distinct([i \in 1..Len(ListOf(IndexDoc, "entries")) |->
                        <<ListOf(IndexDoc, "entries")[i].path,
                          ListOf(IndexDoc, "entries")[i].base_url>>])

\* A command found its element in a list of two and did not add it again.
C2_Witness ==
    /\ IndexReadable
    /\ last.op \in {"add-url", "add-entry"}
    /\ last.status = "ok" /\ ~ last.changed
    /\ \E k \in ListKeys : Len(ListOf(IndexDoc, k)) = 2

\* A schema text that is given and that json.loads rejects.
InvalidSchemaText(t) == t \notin {None, ""} /\ ~ JsonLoads(t).ok

\* C3: a scaffold-tool command whose input_json or output_json is not valid
\* JSON fails, and the index file and the files of the directory are the same
\* after it as before it, whatever the state before it.
C3_InvalidSchemaWritesNothing ==
    [][ (/\ last'.op = "scaffold-tool"
         /\ (InvalidSchemaText(last'.input_json) \/ InvalidSchemaText(last'.output_json)))
        => (/\ last'.status = "invalid_schema"
            /\ index' = index
            /\ files' = files) ]_vars

\* C4: an add-inline command without force whose destination exists with a
\* content other than the source's fails with a conflict, and the index file
\* and the destination are the same after it as before it, whatever the state
\* of the index before it.
C4_ConflictChangesNothing ==
    [][ (/\ last'.op = "add-inline"
         /\ ~ last'.force
         /\ SrcExists(last'.src)
         /\ (index.exists => JsonValid(index.text))
         /\ last'.path \in DOMAIN files
         /\ files[last'.path] # SrcText(last'.src))
        => (/\ last'.status = "destination_conflict"
            /\ index' = index
            /\ files' = files) ]_vars

\* C5: a command that fails has written no file, and a command that writes a
\* manifest file (a scaffold, or a copy of add-inline) has written the index
\* too.
C5_AllOrNothing ==
    [][ /\ last'.status # "ok" => (index' = index /\ files' = files)
        /\ files' # files => index' # index ]_vars

\* C6 as stated: two calls of add_manifest_url in a row with the same URL
\* grow the list by exactly one element in total; the second call returns
\* false and leaves the dict unchanged.
C6_TwiceGrowsByOne ==
    [][ (last'.op = "add_manifest_url" /\ last'.repeat)
        => (/\ ~ last'.changed
            /\ idx' = idx
            /\ last.grew + last'.grew = 1) ]_vars

\* C6 as amended: two calls of add_manifest_url in a row with the same URL
\* grow the list by exactly one element in total when the URL was not in the
\* list before the first call and by none when it was; in both cases the
\* second call returns false and leaves the dict unchanged.
C6_TwiceGrowsOnce ==
    [][ (last'.op = "add_manifest_url" /\ last'.repeat)
        => (/\ ~ last'.changed
            /\ idx' = idx
            /\ last.grew + last'.grew = (IF last.had THEN 0 ELSE 1)) ]_vars

\* The second of two calls in a row with the same URL has returned false.
C6_Witness ==
    /\ last.op = "add_manifest_url" /\ last.repeat
    /\ ~ last.changed
    /\ last.url \in UrlsOf(idx)

\* C7: add_entry returns true and appends {path, base_url} exactly when no
\* element of entries has both that path and that base_url, and otherwise
\* returns false and appends nothing.
C7_AddEntryIffNewPair ==
    [][ last'.op = "add_entry" =>
        LET e == [path |-> last'.path, base_url |-> last'.base_url]
            old == ListOf(idx, "entries")
            new == ListOf(idx', "entries")
            present == \E i \in 1..Len(old) :
                          old[i].path = e.path /\ old[i].base_url = e.base_url
        IN  /\ last'.changed = ~ present
            /\ new = IF present THEN old ELSE Append(old, e) ]_vars

\* Two calls with the same path and different base_url have both appended.
C7_Witness ==
    /\ last.op = "add_entry" /\ last.changed
    /\ \E i, j \in 1..Len(ListOf(idx, "entries")) :
          /\ i < j /\ j = Len(idx["entries"])
          /\ idx["entries"][i].path = idx["entries"][j].path
          /\ idx["entries"][i].base_url # idx["entries"][j].base_url

\* C8: ensure_index on a path where no file exists creates an index whose
\* only list key is that of the requested shape (items when none is given),
\* with an empty list, and a meta block, and the index is on disk when it
\* returns; on a path where a file exists it returns that document and writes
\* nothing.
C8_EnsureCreatesOrLoads ==
    [][ (last'.op = "ensure_index" /\ last'.shape \in VALID_SHAPES \cup {None}) =>
        IF index.exists
        THEN /\ index' = index
             /\ last'.status = "ok"
             /\ idx' = JsonLoad(index.text)
        ELSE LET key == IF last'.shape = None THEN "items" ELSE last'.shape
             IN  /\ last'.status = "ok"
                 /\ DOMAIN idx' = {key, "meta"}
                 /\ idx'[key] = <<>>
                 /\ DOMAIN idx'["meta"] =
                        {"format", "version", "generated_by", "created_at"}
                 /\ index'.exists
                 /\ JsonValid(index'.text)
                 /\ JsonLoad(index'.text) = idx' ]_vars

\* ensure_index without a shape has created a Form-B index on disk.
C8_Witness ==
    /\ last.op = "ensure_index" /\ last.shape = None /\ last.status = "ok"
    /\ DOMAIN idx = {"items", "meta"}
    /\ idx["meta"].created_at = clock - 1
    /\ IndexReadable

\* C9: ensure_index fails with the invalid-shape error whenever the shape is
\* none of manifests, items, entries, whether or not a file exists at the
\* path, and then writes nothing.
C9_InvalidShapeAlwaysFails ==
    [][ (last'.op = "ensure_index" /\ last'.shape \notin VALID_SHAPES \cup {None})
        => (last'.status = "invalid_shape" /\ index' = index) ]_vars

\* C10: add_manifest_url and add_entry change nothing in the dict except that
\* they may append one element at the end of one list (a list that is absent
\* counting as empty): every other key, meta included, keeps its value, no
\* key goes away, and the old list is a prefix of the new one.
C10_OnlyAppends ==
    [][ last'.op \in {"add_manifest_url", "add_entry"} =>
        \E t \in ListKeys :
            /\ DOMAIN idx \subseteq DOMAIN idx'
            /\ DOMAIN idx' \subseteq DOMAIN idx \cup {t}
            /\ \A k \in DOMAIN idx \ {t} : idx'[k] = idx[k]
            /\ Len(ListOf(idx', t)) \in {Len(ListOf(idx, t)), Len(ListOf(idx, t)) + 1}
            /\ \A i \in 1..Len(ListOf(idx, t)) : ListOf(idx', t)[i] = ListOf(idx, t)[i] ]_vars

\* A helper has appended a second element to a list of a dict that has a meta
\* block and another list.
C10_Witness ==
    /\ last.op \in {"add_manifest_url", "add_entry"} /\ last.changed
    /\ "meta" \in DOMAIN idx
    /\ \E k \in ListKeys : Len(ListOf(idx, k)) = 2
    /\ Cardinality(DOMAIN idx \cap ListKeys) >= 2

ScaffoldOps == {"scaffold-server", "scaffold-tool", "scaffold-agent"}

\* The entries of the index file, none when there is no index file yet.
EntriesOnDisk(file) == IF file.exists THEN ListOf(JsonLoad(file.text), "entries") ELSE <<>>

\* The number of entries with that path and that base_url.
CountEntry(entries, path, base_url) ==
    Cardinality({i \in 1..Len(entries) :
                    entries[i].path = path /\ entries[i].base_url = base_url})

\* C11: a scaffold command overwrites the manifest file {id}.manifest.json
\* with the manifest it builds; run again with the same id and base_url (its
\* record is in entries) it reports the record as already present and leaves
\* entries unchanged; run with a base_url that is not yet registered for the
\* path it appends the record and reports it as added; either way entries
\* then holds exactly one record with that path and that base_url.
C11_ScaffoldRerun ==
    [][ (last'.op \in ScaffoldOps /\ last'.status = "ok") =>
        LET old == EntriesOnDisk(index)
            new == EntriesOnDisk(index')
            e == [path |-> last'.path, base_url |-> last'.base_url]
            present == CountEntry(old, e.path, e.base_url) > 0
            type == CASE last'.op = "scaffold-server" -> "mcp_server"
                      [] last'.op = "scaffold-tool" -> "tool"
                      [] last'.op = "scaffold-agent" -> "agent"
        IN  /\ last'.path \in DOMAIN files'
            /\ JsonValid(files'[last'.path])
            /\ JsonLoad(files'[last'.path]).type = type
            /\ ManifestFilename(JsonLoad(files'[last'.path]).id) = last'.path
            /\ last'.op = "scaffold-tool" =>
                  ("input_schema" \in DOMAIN JsonLoad(files'[last'.path]))
                      = (last'.input_json = "{\"type\":\"object\"}")
            /\ \A f \in DOMAIN files : f # last'.path => (f \in DOMAIN files' /\ files'[f] = files[f])
            /\ last'.changed = ~ present
            /\ new = IF present THEN old ELSE Append(old, e)
            /\ CountEntry(new, e.path, e.base_url) = 1 ]_vars

\* A scaffold command has been run with one base_url, with another, and with
\* the first again: the path is registered twice and the last run found its
\* record.
C11_Witness ==
    /\ last.op \in ScaffoldOps /\ last.status = "ok" /\ ~ last.changed
    /\ Len(EntriesOnDisk(index)) = 2
    /\ EntriesOnDisk(index)[1].path = last.path
    /\ EntriesOnDisk(index)[2].path = last.path
    /\ EntriesOnDisk(index)[1].base_url = last.base_url
    /\ last.path \in DOMAIN files

\* The dict without the key updated_at of its meta block.
WithoutUpdatedAt(d) ==
    IF "meta" \in DOMAIN d
    THEN Put(d, "meta", [k \in DOMAIN d["meta"] \ {"updated_at"} |-> d["meta"][k]])
    ELSE d

\* C12: ensure_index called right after persist_index on the same path
\* returns a dict with the same keys and the same lists as the dict that was
\* persisted (and the same meta block, updated_at set aside).
C12_PersistEnsureRoundTrip ==
    [][ (last.op = "persist_index" /\ last'.op = "ensure_index") =>
        /\ last'.status = "ok"
        /\ DOMAIN idx' = DOMAIN idx
        /\ \A k \in DOMAIN idx \cap ListKeys : idx'[k] = idx[k]
        /\ WithoutUpdatedAt(idx') = WithoutUpdatedAt(idx)
        /\ index' = index ]_vars

\* ensure_index has loaded a dict with two lists, one of them not empty, that
\* persist_index wrote in the call before it.
C12_Witness ==
    /\ last.op = "ensure_index" /\ last.status = "ok"
    /\ "meta" \in DOMAIN idx
    /\ "updated_at" \in DOMAIN idx["meta"]
    /\ idx["meta"].updated_at = clock - 2
    /\ Cardinality(DOMAIN idx \cap ListKeys) = 2
    /\ \E k \in DOMAIN idx \cap ListKeys : Len(idx[k]) > 0

\* The dict holds the element that the invocation adds.
HoldsElementOf(d, pr) ==
    IF pr.op = "add-url"
    THEN ("items" \in DOMAIN d \/ "manifests" \in DOMAIN d) /\ pr.url \in UrlsOf(d)
    ELSE CountEntry(ListOf(d, "entries"), pr.path, pr.base_url) > 0

SameElement(pr, qr) ==
    pr.op = qr.op /\ pr.url = qr.url /\ pr.path = qr.path /\ pr.base_url = qr.base_url

\* C13: when the two invocations have both completed and the index file is
\* readable, it holds the dict of the invocation that wrote last (last
\* writer wins): that invocation's element is in it, and the element of the
\* other one is in it only if the last writer looked at the file after the
\* other one had written it (or adds the same element).
C13_LastWriterWins ==
    \A w, o \in Procs :
        (/\ w # o
         /\ procs[w].pc = "done" /\ procs[o].pc = "done"
         /\ procs[w].wrote_at > procs[o].wrote_at
         /\ IndexReadable)
        => /\ IndexDoc = procs[w].idx
           /\ HoldsElementOf(IndexDoc, procs[w])
           /\ HoldsElementOf(IndexDoc, procs[o])
                = (procs[o].wrote_at < procs[w].loaded_at \/ SameElement(procs[w], procs[o]))

\* The lost update: both invocations have completed and have reported their
\* element as added, and the index holds the element of the one that wrote
\* last and not the element of the other.
C13_LostUpdate ==
    \E w, o \in Procs :
        /\ w # o
        /\ procs[w].pc = "done" /\ procs[o].pc = "done"
        /\ procs[w].changed /\ procs[o].changed
        /\ procs[w].wrote_at > procs[o].wrote_at
        /\ IndexReadable
        /\ HoldsElementOf(IndexDoc, procs[w])
        /\ ~ HoldsElementOf(IndexDoc, procs[o])

\* C14: add_manifest_url picks its list by the keys of the dict: with "items"
\* present it appends {manifest_url: url} to items unless the URL is there,
\* also when "manifests" is present too, which it then leaves alone;
\* otherwise with "manifests" present it appends the URL itself to manifests
\* unless it is there; with neither it sets items to the one record and
\* returns true.
C14_TargetList ==
    [][ last'.op = "add_manifest_url" =>
        LET url == last'.url
            rec == [manifest_url |-> url]
        IN  IF "items" \in DOMAIN idx
            THEN LET there == \E i \in 1..Len(idx["items"]) : idx["items"][i] = rec
                 IN  /\ last'.changed = ~ there
                     /\ idx'["items"] = IF there THEN idx["items"]
                                        ELSE Append(idx["items"], rec)
                     /\ ("manifests" \in DOMAIN idx') = ("manifests" \in DOMAIN idx)
                     /\ "manifests" \in DOMAIN idx => idx'["manifests"] = idx["manifests"]
            ELSE IF "manifests" \in DOMAIN idx
            THEN LET there == \E i \in 1..Len(idx["manifests"]) : idx["manifests"][i] = url
                 IN  /\ last'.changed = ~ there
                     /\ idx'["manifests"] = IF there THEN idx["manifests"]
                                            ELSE Append(idx["manifests"], url)
                     /\ "items" \notin DOMAIN idx'
            ELSE /\ last'.changed
                 /\ idx'["items"] = <<rec>>
                 /\ "manifests" \notin DOMAIN idx' ]_vars

\* A URL that is in neither list has gone to items of a dict that has both
\* lists.
C14_Witness ==
    /\ last.op = "add_manifest_url" /\ last.changed
    /\ "items" \in DOMAIN idx /\ "manifests" \in DOMAIN idx
    /\ idx["items"][Len(idx["items"])] = [manifest_url |-> last.url]
    /\ last.url \notin SeqToSet(idx["manifests"])

\* C15: add-inline with an existing source whose destination does not exist,
\* or exists with the content of the source, or is to be overwritten
\* (--force), succeeds: the destination then holds the content of the source
\* and no other file of the directory has changed; the record (destination
\* filename, base_url) is in entries, appended and reported as added exactly
\* when it was not there, and the index is persisted with its updated_at.
C15_InlineCopies ==
    [][ (/\ last'.op = "add-inline"
         /\ SrcExists(last'.src)
         /\ (\/ last'.path \notin DOMAIN files
             \/ files[last'.path] = SrcText(last'.src)
             \/ last'.force))
        => LET old == EntriesOnDisk(index)
               new == EntriesOnDisk(index')
               e == [path |-> last'.path, base_url |-> last'.base_url]
               present == CountEntry(old, e.path, e.base_url) > 0
           IN  /\ last'.status = "ok"
               /\ files' = Put(files, last'.path, SrcText(last'.src))
               /\ last'.changed = ~ present
               /\ new = IF present THEN old ELSE Append(old, e)
               /\ JsonLoad(index'.text)["meta"].updated_at = clock ]_vars

\* add-inline with --force has put the content of the source over a
\* destination that held something else, and has found its record in entries.
C15_Witness ==
    /\ last.op = "add-inline" /\ last.status = "ok" /\ last.force
    /\ last.src = "/n/x.yaml"
    /\ files[last.path] = SrcText("/n/x.yaml")
    /\ ~ last.changed
    /\ Len(EntriesOnDisk(index)) = 1

====
